---- MODULE Spec2Model ----
(***************************************************************************)
(* Rank history reconstruction (examples/python/rank_history.py):          *)
(* parse_all_stats scans a directory of score logs into per-scenario       *)
(* timelines and a set of dates; calculate_rank_history builds one         *)
(* override vector per date, sends the dates in batches to the rank CLI    *)
(* through a pool of 4 worker threads, and sorts the answers by date.      *)
(***************************************************************************)
EXTENDS Integers, Sequences, FiniteSets, Bags, TLC

(* ------------------------------ bounds --------------------------------- *)
\* calendar days that occur in file names (day k stands for the k-th
\* "YYYY-MM-DD" string in lexicographic order)
MaxDay == 2
\* number of *Stats.csv entries of a scanned directory
MaxFiles == 2
\* number of dates handed to calculate_rank_history in the dispatch runs
MaxDates == 5
\* most dates of a run whose termination is checked
MaxLiveDates == 3
\* longest list handed to calculate_ranks_batch
MaxCalcs == 3

Days == 1..MaxDay
\* time of day of a file stamp (dropped by the date conversion)
Times == {1, 2}
\* scores a Score line can carry (float() accepts negative numbers)
Scores == {1, 2}
\* scenario names of the benchmark
Names == {"A", "B"}
\* canonical scenario lists returned by get_scenario_names
ScenarioLists == {<<"A", "B">>, <<"B", "A">>}
\* batch sizes passed to calculate_rank_history
BatchSizes == {1, 2, 3}

(* --------------------------- helper operators -------------------------- *)
Range(s) == {s[i] : i \in 1..Len(s)}

RECURSIVE SetMax(_)
SetMax(S) == LET x == CHOOSE y \in S : TRUE
             IN IF S = {x} THEN x
                ELSE LET m == SetMax(S \ {x}) IN IF x > m THEN x ELSE m

\* variant: the latest entry of the list instead of the greatest
PyLast(s) == s[Len(s)]

\* Python max(list): first maximal element while walking the list
RECURSIVE PyMax(_)
PyMax(s) == IF Len(s) = 1 THEN s[1]
            ELSE LET m == PyMax(SubSeq(s, 1, Len(s) - 1))
                 IN IF s[Len(s)] > m THEN s[Len(s)] ELSE m

\* sorted(list(set)) of day numbers
RECURSIVE SortedList(_)
SortedList(S) == IF S = {} THEN <<>>
                 ELSE LET m == SetMax(S) IN Append(SortedList(S \ {m}), m)

(* ------------------------------ log files ------------------------------ *)
\* a line of a stats file: marker = it starts with 'Score:'; tok = what the
\* second comma separated token is; val = the number it denotes
OtherLine == [marker |-> FALSE, tok |-> "missing", val |-> 0]
ScoreLine(v) == [marker |-> TRUE, tok |-> "num", val |-> v]
ScoreNoToken == [marker |-> TRUE, tok |-> "missing", val |-> 0]
ScoreNotNumber == [marker |-> TRUE, tok |-> "nonnum", val |-> 0]

\* a directory entry: suffix = name ends with ' Stats.csv'; nparts = number
\* of ' - ' separated fields; scen = first field, stripped; stamp = the last
\* field without the suffix: ok = it matches %Y.%m.%d-%H.%M.%S, and then its
\* day and time; readable = open() succeeds; lines = content
MkFile(sfx, np, sc, st, rd, ls) ==
    [suffix |-> sfx, nparts |-> np, scen |-> sc, stamp |-> st,
     readable |-> rd, lines |-> ls]

Stamp(d, t) == [ok |-> TRUE, day |-> d, time |-> t]
BadStamp == [ok |-> FALSE, day |-> 0, time |-> 0]
Stamps == {Stamp(d, t) : d \in Days, t \in Times}

GoodFiles == {MkFile(TRUE, 3, sc, st, TRUE, <<ScoreLine(v)>>) :
                 sc \in Names, st \in Stamps, v \in Scores}

\* entries off the regular shape: no stats suffix, too few name fields, a
\* stamp that does not parse, a scenario outside the benchmark, a negative
\* score, an unreadable file, contents without a usable first Score line
OddFiles ==
    {MkFile(FALSE, 1, "X", BadStamp, TRUE, <<OtherLine>>),
     MkFile(TRUE, 2, "A", Stamp(1, 1), TRUE, <<ScoreLine(2)>>),
     MkFile(TRUE, 3, "X", Stamp(1, 1), TRUE, <<ScoreLine(2)>>),
     MkFile(TRUE, 3, "B", Stamp(2, 2), TRUE, <<ScoreLine(-1)>>),
     MkFile(FALSE, 3, "A", Stamp(1, 1), TRUE, <<ScoreLine(2)>>),
     MkFile(TRUE, 1, "A", BadStamp, TRUE, <<ScoreLine(2)>>),
     MkFile(TRUE, 3, "A", BadStamp, TRUE, <<ScoreLine(2)>>),
     MkFile(TRUE, 3, "B", Stamp(1, 2), FALSE, <<ScoreLine(2)>>),
     MkFile(TRUE, 3, "B", Stamp(2, 1), TRUE, <<OtherLine>>),
     MkFile(TRUE, 3, "A", Stamp(2, 1), TRUE,
            <<OtherLine, ScoreNotNumber, ScoreLine(2)>>),
     MkFile(TRUE, 3, "A", Stamp(1, 2), TRUE,
            <<ScoreNoToken, ScoreLine(1)>>),
     MkFile(TRUE, 3, "B", Stamp(1, 1), TRUE,
            <<OtherLine, ScoreLine(1), ScoreLine(2)>>)}

FileKinds == GoodFiles \cup OddFiles

\* the name of an entry; a directory holds each name once
FileName(f) == <<f.suffix, f.nparts, f.scen, f.stamp>>

RECURSIVE DirectoriesUpTo(_)
DirectoriesUpTo(n) ==
    IF n = 0 THEN {{}}
    ELSE LET D == DirectoriesUpTo(n - 1)
         IN D \cup UNION {{d \cup {f} :
                              f \in {g \in FileKinds :
                                        \A h \in d : FileName(h) # FileName(g)}} :
                           d \in D}

(* ------------------------------- state --------------------------------- *)
VARIABLES
    pc,                \* position of the main thread
    dir,               \* the entries of the scanned directory
    scenarios,         \* canonical scenario list (get_scenario_names)
    toScan,            \* entries os.scandir has not yielded yet
    opened,            \* entries whose content was opened
    open_count,        \* number of open() calls of the scan
    scenario_scores,   \* parse_all_stats: scenario -> list of <<date, score>>
    unique_dates_set,  \* parse_all_stats: set of date strings
    file_count,        \* parse_all_stats: entries with the stats suffix
    match_count,       \* parse_all_stats: scores found
    cached_scores,     \* calculate_rank_history argument
    unique_dates,      \* calculate_rank_history argument (sorted list)
    batch_size,        \* calculate_rank_history argument
    all_batch_items,   \* list of [date, scoreOverrides]
    chunks,            \* list of batches
    status,            \* per batch: "new", "queued", "running", "finished", "collected"
    future,            \* per batch: what process_batch returned or raised
    results_flat,      \* results collected so far
    completed,         \* number of futures collected
    history,           \* the returned list of history points
    printed,           \* bag of the lines the run has printed
    failed,            \* batches whose Oracle call failed
    batch_calls,       \* per batch: number of CLI calls made for it
    lastResponse,      \* kind of the Oracle response that has just arrived
    dir_state,         \* the stats directory: "ok", "missing" or "unreadable"
    fetch_calls,       \* number of structure-fetch calls of the CLI
    calculations,      \* calculate_ranks_batch argument
    results,           \* calculate_ranks_batch: the list being built
    rank_calls         \* per calculation: how its calculate_rank call ended

scanVars == <<dir, scenarios, toScan, opened, open_count, scenario_scores, unique_dates_set,
              file_count, match_count>>
argVars == <<cached_scores, unique_dates, batch_size>>
buildVars == <<all_batch_items, chunks>>
poolVars == <<status, future, results_flat, completed, failed, lastResponse,
              batch_calls>>
mainVars == <<dir_state, fetch_calls>>
apiVars == <<calculations, results, rank_calls>>
vars == <<pc, mainVars, apiVars, scanVars, argVars, buildVars, poolVars,
          history, printed>>

(* --------------------------- parse_all_stats --------------------------- *)
\* variant: every stamp is taken
StampParsesAny(stamp) == TRUE

\* datetime.strptime(date_part, "%Y.%m.%d-%H.%M.%S"): ValueError on a bad stamp
StampParses(stamp) == stamp.ok

\* dt.strftime("%Y-%m-%d"): the day, the time of day is dropped
DateStr(stamp) == stamp.day

\* index of the first line that starts with 'Score:', 0 when there is none
FirstScoreLine(lines) ==
    IF \E i \in 1..Len(lines) : lines[i].marker
    THEN CHOOSE i \in 1..Len(lines) :
            lines[i].marker /\ \A j \in 1..(i - 1) : ~lines[j].marker
    ELSE 0

\* index of the first Score line that carries a number, 0 when none does
FirstNumericScoreLine(lines) ==
    IF \E i \in 1..Len(lines) : lines[i].marker /\ lines[i].tok = "num"
    THEN CHOOSE i \in 1..Len(lines) :
            /\ lines[i].marker /\ lines[i].tok = "num"
            /\ \A j \in 1..(i - 1) : ~(lines[j].marker /\ lines[j].tok = "num")
    ELSE 0

\* variant: the file is read on until a Score line carries a number
ReadScoreNoBreak(st, f, date_str) ==
    IF ~f.readable THEN st
    ELSE LET k == FirstNumericScoreLine(f.lines)
             st1 == [st EXCEPT !.opened = @ \cup {f}, !.open_count = @ + 1]
         IN IF k = 0 THEN st1
            ELSE [st1 EXCEPT
                    !.scenario_scores[f.scen] =
                        Append(@, <<date_str, f.lines[k].val>>),
                    !.match_count = @ + 1]

\* variant: a score replaces the scenario's earlier score of the same date
ReadScoreOverwrite(st, f, date_str) ==
    IF ~f.readable THEN st
    ELSE LET k == FirstScoreLine(f.lines)
             st1 == [st EXCEPT !.opened = @ \cup {f}, !.open_count = @ + 1]
         IN IF k = 0 \/ f.lines[k].tok # "num" THEN st1
            ELSE [st1 EXCEPT
                    !.scenario_scores[f.scen] =
                        Append(SelectSeq(@, LAMBDA o : o[1] # date_str),
                               <<date_str, f.lines[k].val>>),
                    !.match_count = @ + 1]

\* variant: a Score line without a usable number records the score 0
ReadScoreZero(st, f, date_str) ==
    IF ~f.readable THEN st
    ELSE LET k == FirstScoreLine(f.lines)
             st1 == [st EXCEPT !.opened = @ \cup {f}, !.open_count = @ + 1]
         IN IF k = 0 THEN st1
            ELSE [st1 EXCEPT
                    !.scenario_scores[f.scen] =
                        Append(@, <<date_str, f.lines[k].val>>),
                    !.match_count = @ + 1]

\* the inner try of the loop body: open the file, read up to the first Score
\* line, append its score; any ValueError/FileNotFoundError is swallowed
ReadScore(st, f, date_str) ==
    IF ~f.readable THEN st
    ELSE LET k == FirstScoreLine(f.lines)
             st1 == [st EXCEPT !.opened = @ \cup {f}, !.open_count = @ + 1]
         IN IF k = 0 \/ f.lines[k].tok # "num" THEN st1
            ELSE [st1 EXCEPT
                    !.scenario_scores[f.scen] =
                        Append(@, <<date_str, f.lines[k].val>>),
                    !.match_count = @ + 1]

\* variant: the number of name fields is not looked at
ScanEntryStepAnyName(st, f) ==
    IF ~f.suffix THEN st
    ELSE LET st1 == [st EXCEPT !.file_count = @ + 1]
         IN IF f.scen \notin DOMAIN st.scenario_scores THEN st1
            ELSE IF ~StampParses(f.stamp) THEN st1
            ELSE ReadScore([st1 EXCEPT !.unique_dates_set =
                                          @ \cup {DateStr(f.stamp)}],
                           f, DateStr(f.stamp))

\* one iteration of the os.scandir loop on the scan state st
ScanEntryStep(st, f) ==
    IF ~f.suffix THEN st
    ELSE LET st1 == [st EXCEPT !.file_count = @ + 1]
         IN IF f.nparts < 3 THEN st1
            ELSE IF f.scen \notin DOMAIN st.scenario_scores THEN st1
            ELSE IF ~StampParses(f.stamp) THEN st1
            ELSE ReadScore([st1 EXCEPT !.unique_dates_set =
                                          @ \cup {DateStr(f.stamp)}],
                           f, DateStr(f.stamp))

\* the scan state before the first entry, for the target scenarios
ScanStart(targets) ==
    [scenario_scores |-> [n \in Range(targets) |-> <<>>],
     unique_dates_set |-> {}, file_count |-> 0, match_count |-> 0,
     opened |-> {}, open_count |-> 0]

ScanState == [scenario_scores |-> scenario_scores,
              unique_dates_set |-> unique_dates_set,
              file_count |-> file_count, match_count |-> match_count,
              opened |-> opened, open_count |-> open_count]

ParsedLine(fc, mc) == [kind |-> "Parsed", n |-> fc, m |-> mc]
UniqueDatesLine(n) == [kind |-> "UniqueDates", n |-> n, m |-> 0]

\* what the structure fetch of the CLI answers: a failure, or the scenario
\* names of the benchmark in order (possibly none)
FetchAnswers ==
    {[success |-> FALSE, names |-> <<>>]} \cup
    {[success |-> TRUE, names |-> l] : l \in ScenarioLists \cup {<<>>}}

\* main: fetch_benchmark_structure and get_scenario_names; a failed fetch
\* raises and main exits with 1, an empty list makes main return
FetchStructure(answer) ==
    /\ pc = "fetch"
    /\ fetch_calls' = fetch_calls + 1
    /\ scenarios' = answer.names
    /\ pc' = IF ~answer.success THEN "exit1"
             ELSE IF answer.names = <<>> THEN "done"
             ELSE "parse"
    /\ UNCHANGED <<dir_state, apiVars, dir, toScan, opened, open_count,
                   scenario_scores,
                   unique_dates_set, file_count, match_count, argVars,
                   buildVars, poolVars, history, printed>>

\* variant: only a missing directory is refused
DirExists(ds) == ds # "missing"

\* stats_path.exists() holds and os.scandir(stats_dir) does not raise
DirUsable(ds) == ds # "missing" /\ ds # "unreadable"

\* parse_all_stats up to the loop: a directory that is missing or cannot be
\* listed raises, which main turns into exit code 1
ParseStart ==
    /\ pc = "parse"
    /\ IF DirUsable(dir_state)
       THEN /\ scenario_scores' = [n \in Range(scenarios) |-> <<>>]
            /\ pc' = "scan"
       ELSE /\ pc' = "exit1"
            /\ UNCHANGED scenario_scores
    /\ UNCHANGED <<mainVars, apiVars, dir, scenarios, toScan, opened,
                   open_count,
                   unique_dates_set, file_count, match_count, argVars,
                   buildVars, poolVars, history, printed>>

\* the exception the loop body raises on entry f, "none" when it raises
\* none: strptime and float raise ValueError, open raises PermissionError
BodyException(f, targets) ==
    IF ~f.suffix \/ f.nparts < 3 \/ f.scen \notin Range(targets) THEN "none"
    ELSE IF ~StampParses(f.stamp) THEN "ValueError"
    ELSE IF ~f.readable THEN "PermissionError"
    ELSE LET k == FirstScoreLine(f.lines)
         IN IF k # 0 /\ f.lines[k].tok = "nonnum" THEN "ValueError"
            ELSE "none"

\* variant: without the outer except Exception
HandledInnerOnly(exc) ==
    exc \in {"ValueError", "IndexError", "FileNotFoundError"}

\* the handlers of the loop body: except (ValueError, IndexError,
\* FileNotFoundError), except ValueError, and the outer except Exception
Handled(exc) ==
    \/ exc \in {"ValueError", "IndexError", "FileNotFoundError"}
    \/ exc # "none"

\* for entry in entries: ... (os.scandir yields the entries in any order);
\* an exception no handler takes would leave parse_all_stats and end main
ScanEntry(f) ==
    /\ pc = "scan"
    /\ f \in toScan
    /\ LET st == ScanEntryStep(ScanState, f)
       IN /\ scenario_scores' = st.scenario_scores
          /\ unique_dates_set' = st.unique_dates_set
          /\ file_count' = st.file_count
          /\ match_count' = st.match_count
          /\ opened' = st.opened
          /\ open_count' = st.open_count
    /\ toScan' = toScan \ {f}
    /\ pc' = IF BodyException(f, scenarios) # "none"
                /\ ~Handled(BodyException(f, scenarios))
             THEN "exit1" ELSE "scan"
    /\ UNCHANGED <<mainVars, apiVars, dir, scenarios, argVars, buildVars,
                   poolVars, history, printed>>

\* parse_all_stats returns; main stops when there is no date, otherwise it
\* calls calculate_rank_history with the default batch size
ParseReturn ==
    /\ pc = "scan"
    /\ toScan = {}
    /\ cached_scores' = scenario_scores
    /\ unique_dates' = SortedList(unique_dates_set)
    /\ printed' = printed (+) SetToBag({ParsedLine(file_count, match_count)})
                          (+) SetToBag({UniqueDatesLine(Cardinality(unique_dates_set))})
    /\ pc' = IF unique_dates_set = {} THEN "done" ELSE "build"
    /\ UNCHANGED <<mainVars, apiVars, scanVars, batch_size, buildVars, poolVars, history>>

(* ------------------------ calculate_rank_history ----------------------- *)
\* [score for (score_date, score) in scores_for_scenario if score_date <= date]
RECURSIVE valid_scores(_, _)
valid_scores(scores_for_scenario, date) ==
    IF scores_for_scenario = <<>> THEN <<>>
    ELSE LET obs == Head(scores_for_scenario)
             rest == valid_scores(Tail(scores_for_scenario), date)
         IN IF obs[1] <= date THEN <<obs[2]>> \o rest ELSE rest

\* cached_scores.get(scenario_name, [])
ScoresFor(cached, scenario_name) ==
    IF scenario_name \in DOMAIN cached THEN cached[scenario_name] ELSE <<>>

\* variant: only the observations of the date itself count
OverrideSlotExactDate(cached, scenario_name, date) ==
    LET vs == SelectSeq(ScoresFor(cached, scenario_name),
                        LAMBDA obs : obs[1] = date)
    IN IF vs # <<>> THEN PyMax([i \in 1..Len(vs) |-> vs[i][2]]) ELSE 0

\* one slot of the override vector
OverrideSlot(cached, scenario_name, date) ==
    LET vs == valid_scores(ScoresFor(cached, scenario_name), date)
    IN IF vs # <<>> THEN PyMax(vs) ELSE 0

\* the score_overrides list of one date
score_overrides(cached, scens, date) ==
    [i \in 1..Len(scens) |-> OverrideSlot(cached, scens[i], date)]

BatchItem(cached, scens, date) ==
    [date |-> date, scoreOverrides |-> score_overrides(cached, scens, date)]

Min(a, b) == IF a < b THEN a ELSE b

\* variant: every slice runs one item too far
ChunksOverlap(items, bs) ==
    [k \in 1..((Len(items) + bs - 1) \div bs) |->
        SubSeq(items, (k - 1) * bs + 1,
               IF k * bs + 1 < Len(items) THEN k * bs + 1 ELSE Len(items))]

\* variant: the trailing partial batch is dropped
ChunksFullOnly(items, bs) ==
    [k \in 1..(Len(items) \div bs) |->
        SubSeq(items, (k - 1) * bs + 1, k * bs)]

\* [all_batch_items[i:i + batch_size] for i in range(0, len(all_batch_items), batch_size)]
Chunks(items, bs) ==
    [k \in 1..((Len(items) + bs - 1) \div bs) |->
        SubSeq(items, (k - 1) * bs + 1, Min(k * bs, Len(items)))]

\* batch_size: int = 50
DefaultBatchSize == 50

\* ThreadPoolExecutor(max_workers=4)
max_workers == 4

(* ------------------------------ the Oracle ----------------------------- *)
\* what the CLI writes on a channel: nothing, text that is not JSON, an
\* object with success true and the results, an object with success false
Texts == {"", "garbage", "ok", "fail"}

\* the outcome of one subprocess.run of the CLI
Responses == {[timedOut |-> TRUE, stdout |-> "", stderr |-> ""]} \cup
             [timedOut : {FALSE}, stdout : {""}, stderr : Texts] \cup
             [timedOut : {FALSE}, stdout : Texts \ {""}, stderr : {"", "ok"}]

\* the rank the CLI computes from an override vector
OracleRank(v) == Cardinality({i \in 1..Len(v) : v[i] > 0})

\* the results array of a successful answer: one entry per batch item,
\* tagged with the item's date
OracleResults(batch_items) ==
    [i \in 1..Len(batch_items) |->
        [date |-> batch_items[i].date,
         rank |-> OracleRank(batch_items[i].scoreOverrides)]]

\* how an Oracle call ended: a timeout, output that is not JSON, a process
\* failure without a parseable error object (nothing on stdout, no JSON on
\* stderr), an answer with success false, or a successful answer
ResponseKind(resp) ==
    CASE resp.timedOut -> "timeout"
      [] ~resp.timedOut /\ resp.stdout = "garbage" -> "nonjson"
      [] ~resp.timedOut /\ resp.stdout = "" /\ resp.stderr \in {"", "garbage"}
            -> "procfail"
      [] ~resp.timedOut /\ (resp.stdout = "fail" \/
                            (resp.stdout = "" /\ resp.stderr = "fail"))
            -> "successfalse"
      [] OTHER -> "ok"

FailureKinds == {"timeout", "nonjson", "procfail", "successfalse"}

\* the Oracle call failed
OracleFailed(resp) == ResponseKind(resp) \in FailureKinds

NoLine == [kind |-> "none", n |-> 0, m |-> 0]
BatchFailedLine == [kind |-> "BatchFailed", n |-> 0, m |-> 0]
BatchExceptionLine == [kind |-> "BatchException", n |-> 0, m |-> 0]
ProcessedLine(n) == [kind |-> "Processed", n |-> n, m |-> 0]
ComputingLine(n) == [kind |-> "Computing", n |-> n, m |-> 0]

\* a future that holds no result yet
NoResult == [raised |-> FALSE, results |-> <<>>]
\* no Oracle call has just returned
NoResponse == "none"

\* variant: only JSON errors are caught, a timeout propagates
process_batch_narrow(batch_items, resp) ==
    IF resp.timedOut
    THEN [raised |-> TRUE, results |-> <<>>, line |-> NoLine]
    ELSE LET text == IF resp.stdout # "" THEN resp.stdout ELSE resp.stderr
         IN IF text \in {"", "garbage"}
            THEN [raised |-> FALSE, results |-> <<>>, line |-> BatchExceptionLine]
            ELSE IF text = "ok"
            THEN [raised |-> FALSE, results |-> OracleResults(batch_items),
                  line |-> NoLine]
            ELSE [raised |-> FALSE, results |-> <<>>, line |-> BatchFailedLine]

\* variant: stderr is tried whenever stdout is not JSON
process_batch_fallback(batch_items, resp) ==
    IF resp.timedOut
    THEN [raised |-> FALSE, results |-> <<>>, line |-> BatchExceptionLine]
    ELSE LET text == IF resp.stdout \notin {"", "garbage"} THEN resp.stdout
                                                          ELSE resp.stderr
         IN IF text \in {"", "garbage"}
            THEN [raised |-> FALSE, results |-> <<>>, line |-> BatchExceptionLine]
            ELSE IF text = "ok"
            THEN [raised |-> FALSE, results |-> OracleResults(batch_items),
                  line |-> NoLine]
            ELSE [raised |-> FALSE, results |-> <<>>, line |-> BatchFailedLine]

\* variant: an answer with success false is dropped without a message
process_batch_silent(batch_items, resp) ==
    IF resp.timedOut
    THEN [raised |-> FALSE, results |-> <<>>, line |-> BatchExceptionLine]
    ELSE LET text == IF resp.stdout # "" THEN resp.stdout ELSE resp.stderr
         IN IF text \in {"", "garbage"}
            THEN [raised |-> FALSE, results |-> <<>>, line |-> BatchExceptionLine]
            ELSE IF text = "ok"
            THEN [raised |-> FALSE, results |-> OracleResults(batch_items),
                  line |-> NoLine]
            ELSE [raised |-> FALSE, results |-> <<>>, line |-> NoLine]

\* process_batch: what the call returns (or that it raised) and what it prints
process_batch(batch_items, resp) ==
    IF resp.timedOut
    THEN [raised |-> FALSE, results |-> <<>>, line |-> BatchExceptionLine]
    ELSE LET text == IF resp.stdout # "" THEN resp.stdout ELSE resp.stderr
         IN IF text \in {"", "garbage"}
            THEN [raised |-> FALSE, results |-> <<>>, line |-> BatchExceptionLine]
            ELSE IF text = "ok"
            THEN [raised |-> FALSE, results |-> OracleResults(batch_items),
                  line |-> NoLine]
            ELSE [raised |-> FALSE, results |-> <<>>, line |-> BatchFailedLine]

\* variant: the date is read from a key the result does not have
MapItemNoDate(item) == [date |-> 0, rank |-> item.rank]

\* the history entry made of one result
MapItem(item) == [date |-> item.date, rank |-> item.rank]

\* variant: the list is left in collection order
NoSort(s) == s

\* variant: the sort key is the rank
RECURSIVE SortByRank(_)
SortByRank(s) ==
    IF s = <<>> THEN <<>>
    ELSE LET sorted == SortByRank(SubSeq(s, 1, Len(s) - 1))
             x == s[Len(s)]
             k == Cardinality({i \in 1..Len(sorted) : sorted[i].rank <= x.rank})
         IN SubSeq(sorted, 1, k) \o <<x>> \o SubSeq(sorted, k + 1, Len(sorted))

\* list.sort(key=lambda x: x['date']): stable insertion by date
RECURSIVE SortByDate(_)
InsertByDate(sorted, x) ==
    LET k == Cardinality({i \in 1..Len(sorted) : sorted[i].date <= x.date})
    IN SubSeq(sorted, 1, k) \o <<x>> \o SubSeq(sorted, k + 1, Len(sorted))
SortByDate(s) ==
    IF s = <<>> THEN <<>>
    ELSE InsertByDate(SortByDate(SubSeq(s, 1, Len(s) - 1)), s[Len(s)])

Batches == 1..Len(chunks)
Running == {i \in Batches : status[i] = "running"}

\* for date in unique_dates: ... all_batch_items.append(...)
BuildItem ==
    /\ pc = "build"
    /\ Len(all_batch_items) < Len(unique_dates)
    /\ all_batch_items' =
          Append(all_batch_items,
                 BatchItem(cached_scores, scenarios,
                           unique_dates[Len(all_batch_items) + 1]))
    /\ printed' = IF all_batch_items = <<>>
                  THEN printed (+) SetToBag({ComputingLine(Len(unique_dates))})
                  ELSE printed
    /\ UNCHANGED <<pc, mainVars, apiVars, scanVars, argVars, chunks, poolVars, history>>

\* variant: the batches are cut and handed out while vectors are still built
SplitChunksEarly ==
    /\ pc = "build"
    /\ chunks' = Chunks(all_batch_items, batch_size)
    /\ status' = [i \in DOMAIN chunks' |-> "new"]
    /\ future' = [i \in DOMAIN chunks' |-> NoResult]
    /\ batch_calls' = [i \in DOMAIN chunks' |-> 0]
    /\ printed' = IF all_batch_items = <<>>
                  THEN printed (+) SetToBag({ComputingLine(Len(unique_dates))})
                  ELSE printed
    /\ pc' = IF chunks' = <<>> THEN "collect" ELSE "submit"
    /\ UNCHANGED <<mainVars, apiVars, scanVars, argVars, all_batch_items, results_flat, completed,
                   failed, lastResponse, history>>

\* chunks = [...]; the executor is created
SplitChunks ==
    /\ pc = "build"
    /\ Len(all_batch_items) = Len(unique_dates)
    /\ chunks' = Chunks(all_batch_items, batch_size)
    /\ status' = [i \in DOMAIN chunks' |-> "new"]
    /\ future' = [i \in DOMAIN chunks' |-> NoResult]
    /\ batch_calls' = [i \in DOMAIN chunks' |-> 0]
    /\ printed' = IF all_batch_items = <<>>
                  THEN printed (+) SetToBag({ComputingLine(Len(unique_dates))})
                  ELSE printed
    /\ pc' = IF chunks' = <<>> THEN "collect" ELSE "submit"
    /\ UNCHANGED <<mainVars, apiVars, scanVars, argVars, all_batch_items, results_flat, completed,
                   failed, lastResponse, history>>

\* executor.submit(process_batch, chunk), in the order of chunks
Submit(i) ==
    /\ pc = "submit"
    /\ i \in Batches
    /\ status[i] = "new"
    /\ \A j \in 1..(i - 1) : status[j] # "new"
    /\ status' = [status EXCEPT ![i] = "queued"]
    /\ pc' = IF i = Len(chunks) THEN "collect" ELSE "submit"
    /\ lastResponse' = NoResponse
    /\ UNCHANGED <<mainVars, apiVars, scanVars, argVars, buildVars, future, results_flat,
                   completed, failed, batch_calls, history, printed>>

\* variant: one thread per work item
WorkerPerItem == TRUE

\* an idle worker may take a work item
WorkerIdle == Cardinality(Running) < max_workers

\* a worker thread takes the oldest queued work item and calls the CLI
StartBatch(i) ==
    /\ i \in Batches
    /\ status[i] = "queued"
    /\ \A j \in 1..(i - 1) : status[j] # "queued"
    /\ WorkerIdle
    /\ status' = [status EXCEPT ![i] = "running"]
    /\ batch_calls' = [batch_calls EXCEPT ![i] = @ + 1]
    /\ lastResponse' = NoResponse
    /\ UNCHANGED <<pc, mainVars, apiVars, scanVars, argVars, buildVars, future, results_flat,
                   completed, failed, history, printed>>

\* variant: a batch that brought no result is put back in the queue
RetryFailed(result) == IF result.results = <<>> THEN "queued" ELSE "finished"

\* process_batch has returned or raised: the future is done, whatever the
\* result, and its work item is never run again
FutureState(result) == "finished"

\* the CLI call of batch i ends with resp; process_batch returns
FinishBatch(i, resp) ==
    /\ i \in Batches
    /\ status[i] = "running"
    /\ LET r == process_batch(chunks[i], resp)
       IN /\ future' = [future EXCEPT ![i] = [raised |-> r.raised,
                                               results |-> r.results]]
          /\ printed' = IF r.line = NoLine THEN printed
                        ELSE printed (+) SetToBag({r.line})
    /\ status' = [status EXCEPT ![i] = FutureState(future'[i])]
    /\ failed' = IF OracleFailed(resp) THEN failed \cup {i} ELSE failed
    /\ lastResponse' = ResponseKind(resp)
    /\ UNCHANGED <<pc, mainVars, apiVars, scanVars, argVars, buildVars, results_flat, completed,
                   batch_calls, history>>

\* variant: the loop takes only the futures that carry results
CollectSuccessful(i) ==
    /\ pc = "collect"
    /\ i \in Batches
    /\ status[i] = "finished"
    /\ future[i].results # <<>>
    /\ status' = [status EXCEPT ![i] = "collected"]
    /\ pc' = pc
    /\ results_flat' = results_flat \o future[i].results
    /\ completed' = completed + 1
    /\ lastResponse' = NoResponse
    /\ UNCHANGED <<mainVars, apiVars, scanVars, argVars, buildVars, future, failed, batch_calls,
                   history, printed>>

\* for future in as_completed(...): results_flat.extend(future.result())
Collect(i) ==
    /\ pc = "collect"
    /\ i \in Batches
    /\ status[i] = "finished"
    /\ status' = [status EXCEPT ![i] = "collected"]
    /\ IF future[i].raised
       THEN /\ pc' = "aborted"
            /\ UNCHANGED <<results_flat, completed>>
       ELSE /\ pc' = pc
            /\ results_flat' = results_flat \o future[i].results
            /\ completed' = completed + 1
    /\ lastResponse' = NoResponse
    /\ UNCHANGED <<mainVars, apiVars, scanVars, argVars, buildVars, future, failed, batch_calls,
                   history, printed>>

\* the mapping loop, history.sort and return
Assemble ==
    /\ pc = "collect"
    /\ \A i \in Batches : status[i] = "collected"
    /\ history' = SortByDate([k \in 1..Len(results_flat) |->
                                 MapItem(results_flat[k])])
    /\ printed' = printed (+) SetToBag({ProcessedLine(Len(results_flat))})
    /\ pc' = "done"
    /\ lastResponse' = NoResponse
    /\ UNCHANGED <<mainVars, apiVars, scanVars, argVars, buildVars, status, future, results_flat,
                   completed, failed, batch_calls>>

(* ---------------------------- KovaaksRankAPI --------------------------- *)
\* an element of the calculations list: a dict with the keys api_data,
\* benchmark and difficulty, or one that lacks a key
CalcKinds == {[complete |-> TRUE], [complete |-> FALSE]}

RECURSIVE ListsUpTo(_, _)
ListsUpTo(S, n) ==
    IF n = 0 THEN {<<>>}
    ELSE LET L == ListsUpTo(S, n - 1)
         IN L \cup {Append(l, x) : l \in {m \in L : Len(m) = n - 1}, x \in S}

RankValues == {1, 2}
NoRank == 0

\* what the CLI writes on a stream: nothing, text that is no JSON, a JSON
\* value that is no object, {"success": false, ...}, {"success": true}
\* without a result, {"success": true, "result": ...}
ApiTexts == {"", "garbage", "nondict", "fail", "noresult", "ok"}

\* how subprocess.run ends: it times out, the executable cannot be started,
\* or the process ends with two streams; value = the result an "ok" carries
ApiResponses ==
    {[run |-> r, stdout |-> "", stderr |-> "", value |-> NoRank] :
        r \in {"timeout", "notfound"}} \cup
    {[run |-> "ended", stdout |-> o, stderr |-> e, value |-> v] :
        o \in ApiTexts, e \in ApiTexts, v \in RankValues}

\* json.loads accepts the text
JsonParses(text) == text \notin {"", "garbage"}

Returned(v) == [exc |-> "none", value |-> v, error |-> ""]
Raised(e, msg) == [exc |-> e, value |-> NoRank, error |-> msg]

\* calculate_rank: stdout is parsed, stderr when stdout is no JSON; every
\* exception of the body, also its own RankCalculatorError, leaves as a
\* RankCalculatorError
calculate_rank(resp) ==
    IF resp.run = "timeout"
    THEN Raised("RankCalculatorError", "Calculation timed out")
    ELSE IF resp.run = "notfound"
    THEN Raised("RankCalculatorError", "Executable not found or not executable")
    ELSE LET text == IF JsonParses(resp.stdout) THEN resp.stdout
                     ELSE resp.stderr
         IN IF ~JsonParses(text)
            THEN Raised("RankCalculatorError",
                        "Unexpected error: Invalid JSON response")
            ELSE IF text = "nondict"
            THEN Raised("RankCalculatorError", "Unexpected error: no attribute get")
            ELSE IF text = "fail"
            THEN Raised("RankCalculatorError",
                        "Unexpected error: Calculation failed")
            ELSE IF text = "noresult"
            THEN Raised("RankCalculatorError", "Unexpected error: 'result'")
            ELSE Returned(resp.value)

\* the body of the try of the batch loop: calc['api_data'] ... raises
\* KeyError before calculate_rank is called when calc lacks a key
TryCalc(calc, resp) ==
    IF ~calc.complete THEN Raised("KeyError", "'api_data'")
    ELSE calculate_rank(resp)

\* variant: the loop takes only the errors of calculate_rank
BatchCaughtRankError(exc) == exc = "RankCalculatorError"

\* except Exception as e
BatchCaught(exc) == exc # "none"

\* ghost: how the calculate_rank call of a calculation ended: whether it
\* was made, how subprocess.run ended in it, what it returned or raised
RankCall(calc, resp, out) ==
    IF ~calc.complete
    THEN [kind |-> "notcalled", run |-> "none", value |-> NoRank,
          exc |-> "none"]
    ELSE IF out.exc = "none"
    THEN [kind |-> "returned", run |-> resp.run, value |-> out.value,
          exc |-> "none"]
    ELSE [kind |-> "raised", run |-> resp.run, value |-> NoRank,
          exc |-> out.exc]

\* one iteration of for i, calc in enumerate(calculations)
BatchIteration(resp) ==
    /\ pc = "api"
    /\ Len(results) < Len(calculations)
    /\ LET i == Len(results)
           calc == calculations[i + 1]
           out == TryCalc(calc, resp)
       IN /\ rank_calls' = Append(rank_calls, RankCall(calc, resp, out))
          /\ IF out.exc = "none"
             THEN /\ results' = Append(results, [success |-> TRUE, index |-> i,
                                                 result |-> out.value])
                  /\ pc' = "api"
             ELSE IF BatchCaught(out.exc)
             THEN /\ results' = Append(results, [success |-> FALSE, index |-> i,
                                                 error |-> out.error])
                  /\ pc' = "api"
             ELSE /\ results' = results
                  /\ pc' = "api_raised"
    /\ UNCHANGED <<calculations, mainVars, scanVars, argVars, buildVars,
                   poolVars, history, printed>>

\* return results
BatchReturn ==
    /\ pc = "api"
    /\ Len(results) = Len(calculations)
    /\ pc' = "api_done"
    /\ UNCHANGED <<apiVars, mainVars, scanVars, argVars, buildVars, poolVars,
                   history, printed>>

(* --------------------------- specifications ---------------------------- *)
InitPool ==
    /\ all_batch_items = <<>>
    /\ chunks = <<>>
    /\ status = <<>>
    /\ future = <<>>
    /\ results_flat = <<>>
    /\ completed = 0
    /\ history = <<>>
    /\ printed = EmptyBag
    /\ failed = {}
    /\ batch_calls = <<>>
    /\ lastResponse = NoResponse

\* calculate_ranks_batch is not running
InitApi ==
    /\ calculations = <<>>
    /\ results = <<>>
    /\ rank_calls = <<>>

\* main(): fetch the scenario list, scan the directory, compute the history
Init ==
    /\ pc = "fetch"
    /\ dir_state \in {"ok", "missing", "unreadable"}
    /\ fetch_calls = 0
    /\ dir \in DirectoriesUpTo(MaxFiles)
    /\ dir_state = "missing" => dir = {}
    /\ scenarios = <<>>
    /\ toScan = dir
    /\ opened = {}
    /\ open_count = 0
    /\ scenario_scores = <<>>
    /\ InitApi
    /\ unique_dates_set = {}
    /\ file_count = 0
    /\ match_count = 0
    /\ cached_scores = <<>>
    /\ unique_dates = <<>>
    /\ batch_size = DefaultBatchSize
    /\ InitPool

Dispatch ==
    \/ BuildItem
    \/ SplitChunks
    \/ \E i \in Batches : Submit(i)
    \/ \E i \in Batches : StartBatch(i)
    \/ \E i \in Batches, resp \in Responses : FinishBatch(i, resp)
    \/ \E i \in Batches : Collect(i)
    \/ Assemble

Next ==
    \/ \E answer \in FetchAnswers : FetchStructure(answer)
    \/ ParseStart
    \/ \E f \in toScan : ScanEntry(f)
    \/ ParseReturn
    \/ Dispatch

Spec == Init /\ [][Next]_vars

\* timelines handed to calculate_rank_history in the dispatch runs
HistTimelines ==
    {[n \in Names |-> IF n = "A" THEN << <<2, 1>>, <<1, 2>> >>
                                 ELSE << <<3, 2>> >>]}

\* calculate_rank_history called on given arguments
InitHist ==
    /\ pc = "build"
    /\ dir_state = "ok"
    /\ fetch_calls = 0
    /\ InitApi
    /\ dir = {}
    /\ scenarios = <<"A", "B">>
    /\ toScan = {}
    /\ opened = {}
    /\ open_count = 0
    /\ scenario_scores = [n \in Names |-> <<>>]
    /\ unique_dates_set = {}
    /\ file_count = 0
    /\ match_count = 0
    /\ cached_scores \in HistTimelines
    /\ \E n \in 0..MaxDates : unique_dates = [i \in 1..n |-> i]
    /\ batch_size \in BatchSizes
    /\ InitPool

NextHist == Dispatch

\* calculate_ranks_batch called on a list of calculations
InitBatch ==
    /\ pc = "api"
    /\ calculations \in ListsUpTo(CalcKinds, MaxCalcs)
    /\ results = <<>>
    /\ rank_calls = <<>>
    /\ dir_state = "ok"
    /\ fetch_calls = 0
    /\ dir = {}
    /\ scenarios = <<>>
    /\ toScan = {}
    /\ opened = {}
    /\ open_count = 0
    /\ scenario_scores = <<>>
    /\ unique_dates_set = {}
    /\ file_count = 0
    /\ match_count = 0
    /\ cached_scores = <<>>
    /\ unique_dates = <<>>
    /\ batch_size = DefaultBatchSize
    /\ InitPool

NextBatch ==
    \/ \E resp \in ApiResponses : BatchIteration(resp)
    \/ BatchReturn

SpecBatch == InitBatch /\ [][NextBatch]_vars

SpecHist == InitHist /\ [][NextHist]_vars

\* the steps of the thread that runs calculate_rank_history
MainThread ==
    \/ BuildItem
    \/ SplitChunks
    \/ \E i \in Batches : Submit(i)
    \/ \E i \in Batches : Collect(i)
    \/ Assemble

\* the steps of the pool: a worker takes a batch, a CLI call ends
PoolThreads ==
    \/ \E i \in Batches : StartBatch(i)
    \/ \E i \in Batches, resp \in Responses : FinishBatch(i, resp)

\* calculate_rank_history called on a short list of dates
InitLive == InitHist /\ Len(unique_dates) <= MaxLiveDates

\* the main thread keeps running, idle workers take queued batches, and
\* every CLI call ends: it answers, fails, or is cut off by timeout=300
SpecHistLive ==
    InitLive /\ [][NextHist]_vars /\ WF_vars(MainThread) /\ WF_vars(PoolThreads)

(* ------------------------------ properties ----------------------------- *)
\* indices of the observations of a scenario dated on or before a date
ObsUpTo(cached, name, date) ==
    {j \in 1..Len(cached[name]) : cached[name][j][1] <= date}

\* C1: the override vector of every date has one slot per scenario, in the
\* canonical order, and slot i is the greatest score among the observations
\* of scenario i dated on or before the date, or 0 when there is none
C1_OverrideVector ==
    \A k \in 1..Len(all_batch_items) :
        LET item == all_batch_items[k]
        IN /\ item.date = unique_dates[k]
           /\ Len(item.scoreOverrides) = Len(scenarios)
           /\ \A i \in 1..Len(scenarios) :
                 LET name == scenarios[i]
                     obs == ObsUpTo(cached_scores, name, item.date)
                 IN item.scoreOverrides[i] =
                       IF obs = {} THEN 0
                       ELSE SetMax({cached_scores[name][j][2] : j \in obs})

\* a vector with a slot 0 for a scenario observed only later, and a vector
\* with a slot filled from an earlier date
C1_Witness ==
    /\ \E k \in 1..Len(all_batch_items), i \in 1..Len(scenarios) :
          /\ cached_scores[scenarios[i]] # <<>>
          /\ ObsUpTo(cached_scores, scenarios[i], all_batch_items[k].date) = {}
          /\ all_batch_items[k].scoreOverrides[i] = 0
    /\ \E k \in 1..Len(all_batch_items), i \in 1..Len(scenarios) :
          /\ \A j \in 1..Len(cached_scores[scenarios[i]]) :
                cached_scores[scenarios[i]][j][1] < all_batch_items[k].date
          /\ all_batch_items[k].scoreOverrides[i] > 0

\* the dates the file names of a directory give for the target scenarios
DateSetOfNames(d, targets) ==
    {DateStr(f.stamp) : f \in {g \in d : /\ g.suffix
                                         /\ g.nparts >= 3
                                         /\ g.scen \in Range(targets)
                                         /\ g.stamp.ok}}

\* C2: every date of the returned history is in the DateSet derived from the
\* file names, and no date appears twice
C2_DatesFromDateSet ==
    pc = "done" =>
        /\ \A k \in 1..Len(history) :
              history[k].date \in DateSetOfNames(dir, scenarios)
        /\ \A k, l \in 1..Len(history) :
              history[k].date = history[l].date => k = l

C2_Witness == pc = "done" /\ Len(history) = 2 /\ Cardinality(dir) = 2

\* C3: the returned history is sorted non-decreasing by date
C3_SortedByDate ==
    pc = "done" =>
        \A k \in 1..(Len(history) - 1) : history[k].date <= history[k + 1].date

\* a finished run whose batches were collected out of date order, one failed
C3_Witness ==
    /\ pc = "done"
    /\ failed # {}
    /\ \E k \in 1..(Len(results_flat) - 1) :
          results_flat[k].date > results_flat[k + 1].date

\* C4: the history is at most as long as the DateSet and exactly as long
\* if and only if no batch failed
C4_Length ==
    pc = "done" =>
        /\ Len(history) <= Len(unique_dates)
        /\ (Len(history) = Len(unique_dates)) <=> (failed = {})

C4_Witness ==
    /\ pc = "done"
    /\ failed # {}
    /\ Len(history) > 0
    /\ Len(chunks[Len(chunks)]) < batch_size

\* the dates of the items of batch i
BatchDates(i) == {chunks[i][k].date : k \in 1..Len(chunks[i])}

\* C5: failed batches never make the run raise; every batch is dispatched
\* and collected, and the history holds exactly the points of the dates of
\* the batches that succeeded
C5_PartialFailure ==
    /\ pc # "aborted"
    /\ pc = "done" =>
          /\ \A i \in Batches : status[i] = "collected"
          /\ {history[k].date : k \in 1..Len(history)} =
                UNION {BatchDates(i) : i \in Batches \ failed}

C5_Witness ==
    /\ pc = "done"
    /\ Len(chunks) >= 3
    /\ Cardinality(failed) = 1
    /\ Len(history) >= 2

\* C6: a timeout, a non-JSON output, a process failure without a parseable
\* error object and an answer with success false all end the call the same
\* way: process_batch returns no point and nothing else of the run changes
C6_FailureKindsAlike ==
    [][lastResponse' \in FailureKinds =>
          \E i \in Batches :
             /\ status[i] = "running"
             /\ status' = [status EXCEPT ![i] = "finished"]
             /\ future' = [future EXCEPT ![i] = NoResult]
             /\ results_flat' = results_flat
             /\ history' = history
             /\ pc' = pc]_vars

\* a process failure without error object arrives after a sibling succeeded
C6_Witness ==
    /\ lastResponse = "procfail"
    /\ results_flat # <<>>
    /\ failed # {}

\* the numbers a run reports in its summary lines
ReportedCounts ==
    {l.n : l \in {x \in BagToSet(printed) :
                     x.kind \in {"Computing", "Processed"}}}

\* C7 as stated: a finished run reports the number of failed batches
C7_ReportsFailedCount ==
    pc = "done" => Cardinality(failed) \in ReportedCounts

\* the failure messages printed so far
FailureLines ==
    CopiesIn(BatchFailedLine, printed) + CopiesIn(BatchExceptionLine, printed)

\* C7 amended: no count of failed batches is reported, but every failed
\* batch prints one failure message, so the number of failure messages is
\* the number of failed batches
C7_FailureLines == FailureLines = Cardinality(failed)

C7_Witness ==
    /\ pc = "done"
    /\ CopiesIn(BatchFailedLine, printed) >= 1
    /\ CopiesIn(BatchExceptionLine, printed) >= 1
    /\ Len(history) >= 1

\* every outcome of the scan of a directory, over all iteration orders
RECURSIVE ScanOutcomes(_, _)
ScanOutcomes(st, entries) ==
    IF entries = {} THEN {st}
    ELSE UNION {ScanOutcomes(ScanEntryStep(st, f), entries \ {f}) :
                   f \in entries}

BatchOf(k) == ((k - 1) \div batch_size) + 1

\* the points of the batches that did not fail, in date order
RECURSIVE ExpectedHistory(_)
ExpectedHistory(k) ==
    IF k = 0 THEN <<>>
    ELSE LET item == all_batch_items[k]
         IN IF BatchOf(k) \in failed THEN ExpectedHistory(k - 1)
            ELSE Append(ExpectedHistory(k - 1),
                        [date |-> item.date,
                         rank |-> OracleRank(item.scoreOverrides)])

\* C9: the returned history is fixed by the answers of the batches, whatever
\* order they complete in; each point carries the date it was computed for
C9_CompletionOrder ==
    pc = "done" => history = ExpectedHistory(Len(all_batch_items))

\* three batches answered, collected in an order that is not the date order
C9_Witness ==
    /\ pc = "done"
    /\ Len(history) >= 3
    /\ failed = {}
    /\ results_flat # history

\* C10: at most 4 Oracle calls are in flight at any moment
C10_BoundedCalls == Cardinality(Running) <= 4

\* four calls in flight while a fifth batch waits in the queue
C10_Witness ==
    /\ Cardinality(Running) = 4
    /\ \E i \in Batches : status[i] = "queued"

\* C11: each batch is sent to the Oracle exactly once: no batch is ever
\* called twice, failed or not, and a finished run has made one call per
\* batch, ceil(|DateSet| / batch_size) calls in all
C11_OneCallPerBatch ==
    /\ \A i \in Batches : batch_calls[i] <= 1
    /\ \A i \in Batches : status[i] \in {"running", "finished", "collected"}
                               => batch_calls[i] = 1
    /\ pc = "done" =>
          /\ \A i \in Batches : batch_calls[i] = 1
          /\ Len(chunks) * batch_size >= Len(unique_dates)
          /\ (Len(chunks) - 1) * batch_size < Len(unique_dates)
                 \/ (Len(chunks) = 0 /\ unique_dates = <<>>)

\* a finished run of three batches of which two failed
C11_Witness ==
    /\ pc = "done"
    /\ Len(chunks) = 3
    /\ batch_size = 2
    /\ Cardinality(failed) = 2

\* the batches one after the other
RECURSIVE Concat(_)
Concat(ss) == IF ss = <<>> THEN <<>>
              ELSE Concat(SubSeq(ss, 1, Len(ss) - 1)) \o ss[Len(ss)]

\* C12: the batches partition the sorted date sequence: concatenated in
\* order they give it back, every date is in exactly one batch, every batch
\* but the last has batch_size dates and the last has 1..batch_size
C12_BatchesPartition ==
    pc # "build" =>
        /\ Concat(chunks) = all_batch_items
        /\ [k \in 1..Len(all_batch_items) |-> all_batch_items[k].date]
              = unique_dates
        /\ \A d \in Range(unique_dates) :
              Cardinality({i \in Batches : d \in BatchDates(i)}) = 1
        /\ \A i \in Batches :
              /\ i < Len(chunks) => Len(chunks[i]) = batch_size
              /\ Len(chunks[i]) >= 1
              /\ Len(chunks[i]) <= batch_size

\* five dates cut into batches of two: two full batches and a last of one
C12_Witness ==
    /\ pc = "submit"
    /\ batch_size = 2
    /\ Len(chunks) = 3
    /\ Len(chunks[3]) = 1

RECURSIVE SumSeq(_)
SumSeq(q) == IF q = <<>> THEN 0 ELSE q[Len(q)] + SumSeq(SubSeq(q, 1, Len(q) - 1))

\* calls of the CLI made so far: structure fetches and batch calls
OracleCalls == fetch_calls + SumSeq(batch_calls)

\* main has ended with exit code 1 because the directory could not be used
DirAbort == pc = "exit1" /\ dir_state # "ok" /\ scenarios # <<>>

\* C13 as stated: a missing or unreadable log directory aborts the run
\* before any Oracle call has been made
C13_AbortBeforeAnyCall == DirAbort => OracleCalls = 0

\* C13 amended: a missing or unreadable log directory is fatal: the run
\* ends with exit code 1 without scanning a file, building a vector or
\* making a batch Oracle call; only the structure fetch that gives the
\* scenario names has been made before, once
C13_AbortBeforeBatchCalls ==
    dir_state # "ok" =>
        /\ pc \in {"fetch", "parse", "exit1", "done"}
        /\ pc = "done" => scenarios = <<>>
        /\ file_count = 0 /\ opened = {} /\ toScan = dir
        /\ all_batch_items = <<>> /\ chunks = <<>>
        /\ SumSeq(batch_calls) = 0
        /\ history = <<>>
        /\ fetch_calls <= 1
        /\ DirAbort => fetch_calls = 1

\* the run has ended on an unreadable directory that holds files
C13_Witness == DirAbort /\ dir_state = "unreadable" /\ dir # {}

\* parse_all_stats has returned to main
ParseReturned == pc \notin {"fetch", "parse", "scan", "exit1"} /\ scenarios # <<>>

\* the first line with the Score marker carries a number
HasScore(lines) ==
    \E i \in 1..Len(lines) :
        /\ lines[i].marker /\ lines[i].tok = "num"
        /\ \A j \in 1..(i - 1) : ~lines[j].marker

\* a stats file of a target scenario with a name of three fields or more,
\* a stamp that parses, content that can be read and a numeric first Score line
WellFormed(f, targets) ==
    /\ f.suffix /\ f.nparts >= 3 /\ f.scen \in Range(targets)
    /\ f.stamp.ok /\ f.readable /\ HasScore(f.lines)

\* the scan step that takes entry f, if this step is one
Scans(f) == pc = "scan" /\ f \in toScan /\ toScan' = toScan \ {f}

\* C14: in an existing directory no file makes parse_all_stats raise, and
\* the timelines it returns are those of a scan of the well-formed files alone
C14_FileErrorsContained ==
    dir_state = "ok" =>
        /\ pc = "exit1" => toScan = dir /\ scenarios = <<>>
        /\ ParseReturned =>
              cached_scores \in
                 {st.scenario_scores :
                     st \in ScanOutcomes(ScanStart(scenarios),
                                         {f \in dir : WellFormed(f, scenarios)})}

\* parse_all_stats has returned from a directory with an unreadable file of a
\* target scenario and one well-formed file
C14_Witness ==
    /\ ParseReturned /\ dir_state = "ok" /\ match_count = 1
    /\ \E f \in dir : ~f.readable /\ f.scen \in Range(scenarios)
    /\ \E n \in DOMAIN cached_scores : Len(cached_scores[n]) = 1

\* C15 as stated: a file whose name has fewer than three fields is skipped
\* and a counter of the scanner is incremented for it
C15_SkippedCounter ==
    [][\A f \in toScan :
          (Scans(f) /\ f.nparts < 3) =>
              file_count' + match_count' > file_count + match_count]_vars

\* C15 amended: a file whose name has fewer than three fields is skipped
\* without raising, adds no observation and no date and is not opened; no
\* counter of skipped files exists: file_count grows by one when the name
\* ends with ' Stats.csv', and nothing is counted otherwise
C15_ShortNameSkipped ==
    [][\A f \in toScan :
          (Scans(f) /\ f.nparts < 3) =>
              /\ pc' = "scan"
              /\ scenario_scores' = scenario_scores
              /\ unique_dates_set' = unique_dates_set
              /\ opened' = opened
              /\ match_count' = match_count
              /\ file_count' = file_count + (IF f.suffix THEN 1 ELSE 0)]_vars

\* the scan has taken a short name without the stats suffix and a short
\* name with it, which names a target scenario and a valid date
C15_Witness ==
    /\ pc = "scan" /\ toScan = {} /\ file_count = 1
    /\ \E f \in dir : f.nparts < 3 /\ ~f.suffix
    /\ \E f \in dir : f.nparts < 3 /\ f.suffix /\ f.stamp.ok
                         /\ f.scen \in Range(scenarios)

\* C16: a readable file of a target scenario with a valid date and without
\* a numeric first Score line adds no observation, and the scan goes on
C16_NoScoreNoRecord ==
    [][\A f \in toScan :
          (/\ Scans(f)
           /\ f.suffix /\ f.nparts >= 3 /\ f.scen \in Range(scenarios)
           /\ f.stamp.ok /\ f.readable /\ ~HasScore(f.lines)) =>
              /\ scenario_scores' = scenario_scores
              /\ match_count' = match_count
              /\ pc' = "scan"]_vars

\* the scan has opened a file whose first Score line has a non-numeric
\* token and a file whose first Score line has no token, and goes on
C16_Witness ==
    /\ pc = "scan" /\ match_count = 0
    /\ \E f \in opened : \E i \in 1..Len(f.lines) :
          f.lines[i].marker /\ f.lines[i].tok = "nonnum"
    /\ \E f \in opened : f.lines[1].marker /\ f.lines[1].tok = "missing"

\* C17: all scores of the timelines parse_all_stats builds are non-negative
C17_ScoresNonNegative ==
    \A n \in DOMAIN scenario_scores :
        \A j \in 1..Len(scenario_scores[n]) : scenario_scores[n][j][2] >= 0

\* C18: the override slot of a scenario never decreases from a date to a
\* later one, and at the latest date it is the maximum of all observations
\* of the scenario, or 0 when there is none
C18_RunningMaximum ==
    /\ \A k1 \in 1..Len(all_batch_items), k2 \in 1..Len(all_batch_items) :
          k1 <= k2 =>
              \A i \in 1..Len(scenarios) :
                  all_batch_items[k2].scoreOverrides[i] >=
                      all_batch_items[k1].scoreOverrides[i]
    /\ (all_batch_items # <<>> /\ Len(all_batch_items) = Len(unique_dates)) =>
          \A i \in 1..Len(scenarios) :
              LET obs == cached_scores[scenarios[i]]
              IN all_batch_items[Len(all_batch_items)].scoreOverrides[i] =
                    IF obs = <<>> THEN 0
                    ELSE SetMax({obs[j][2] : j \in 1..Len(obs)})

\* the dates that have a point in the returned history
HistoryDates == {history[k].date : k \in 1..Len(history)}

\* C19: in the returned history every batch is present with all its dates
\* or with none of them
C19_BatchAtomic ==
    pc = "done" =>
        \A i \in Batches :
            \/ BatchDates(i) \subseteq HistoryDates
            \/ BatchDates(i) \cap HistoryDates = {}

\* a finished run in which one batch of two dates is present and another
\* batch of two dates is absent
C19_Witness ==
    /\ pc = "done"
    /\ \E i \in Batches :
          Len(chunks[i]) = 2 /\ BatchDates(i) \subseteq HistoryDates
    /\ \E i \in Batches :
          Len(chunks[i]) = 2 /\ BatchDates(i) \cap HistoryDates = {}

\* C20: calculate_ranks_batch returns a list as long as its input; entry i
\* has index i, is a success with the result when calculate_rank returned
\* for calculation i and a failure with an error string when it raised;
\* calculate_rank is called for every calculation that has its keys,
\* whatever happened to the earlier ones
C20_BatchEntries ==
    /\ pc \in {"api", "api_done"}
    /\ Len(results) <= Len(calculations)
    /\ pc = "api_done" => Len(results) = Len(calculations)
    /\ Len(rank_calls) = Len(results)
    /\ \A k \in 1..Len(results) :
          /\ results[k].index = k - 1
          /\ rank_calls[k].kind = "notcalled" <=> ~calculations[k].complete
          /\ rank_calls[k].kind = "returned" =>
                results[k] = [success |-> TRUE, index |-> k - 1,
                              result |-> rank_calls[k].value]
          /\ rank_calls[k].kind = "raised" =>
                /\ DOMAIN results[k] = {"success", "index", "error"}
                /\ results[k].success = FALSE
                /\ results[k].error # ""

\* a returned list of three entries: a raised call, a returned call and a
\* raised call again
C20_Witness ==
    /\ pc = "api_done"
    /\ Len(results) = 3
    /\ rank_calls[1].kind = "raised"
    /\ rank_calls[2].kind = "returned" /\ results[2].success
    /\ rank_calls[3].kind = "raised" /\ ~results[3].success

\* C21: a calculate_rank call that exceeds the timeout raises
\* subprocess.TimeoutExpired, a call that fails otherwise raises
\* RankCalculatorError
C21_RaisesTimeoutExpired ==
    \A k \in 1..Len(rank_calls) :
        rank_calls[k].kind = "raised" =>
            rank_calls[k].exc = IF rank_calls[k].run = "timeout"
                                THEN "TimeoutExpired"
                                ELSE "RankCalculatorError"

\* a batch call of the CLI has been issued
BatchCallIssued == SumSeq(batch_calls) > 0

\* C22: when the first batch call is issued the scan of the directory has
\* ended and the override vector of every date is built; no call is made
\* while entries are unscanned or vectors are missing
C22_ScanAndBuildBeforeDispatch ==
    BatchCallIssued =>
        /\ pc \in {"submit", "collect", "done", "aborted"}
        /\ toScan = {}
        /\ cached_scores = scenario_scores
        /\ unique_dates = SortedList(unique_dates_set)
        /\ Len(all_batch_items) = Len(unique_dates)
        /\ \A k \in 1..Len(unique_dates) :
              all_batch_items[k] =
                 BatchItem(cached_scores, scenarios, unique_dates[k])

\* the batch call of a run over two files and two dates is in progress
C22_Witness ==
    /\ BatchCallIssued
    /\ Cardinality(dir) = 2
    /\ Len(all_batch_items) = 2
    /\ \E i \in Batches : status[i] = "running"

\* entry f cut after its first line with the Score marker
UpToFirstScore(f) ==
    IF FirstScoreLine(f.lines) = 0 THEN f
    ELSE [f EXCEPT !.lines = SubSeq(@, 1, FirstScoreLine(f.lines))]

\* what a scan state says about the result of parse_all_stats
ScanResult(st) == <<st.scenario_scores, st.unique_dates_set, st.file_count,
                    st.match_count>>

\* C23: every file is opened at most once; the scan of a file gives what
\* the scan of the file cut after its first Score line gives; a file whose
\* first Score line is unusable adds no observation, whatever follows
C23_FirstScoreLineOnly ==
    /\ open_count = Cardinality(opened)
    /\ opened \subseteq dir \ toScan
    /\ pc = "scan" =>
          \A f \in toScan :
             LET st == ScanEntryStep(ScanState, f)
             IN /\ ScanResult(st) =
                      ScanResult(ScanEntryStep(ScanState, UpToFirstScore(f)))
                /\ st.open_count <= open_count + 1
                /\ (\E i \in 1..Len(f.lines) :
                       /\ f.lines[i].marker /\ f.lines[i].tok # "num"
                       /\ \A j \in 1..(i - 1) : ~f.lines[j].marker)
                      => st.scenario_scores = scenario_scores

\* the scan has taken a file whose unusable first Score line is followed by
\* a usable one, without a record, and a file with two numeric Score lines
C23_Witness ==
    /\ pc = "scan" /\ toScan = {} /\ open_count = 2 /\ match_count = 1
    /\ \E f \in opened :
          /\ FirstScoreLine(f.lines) > 0
          /\ f.lines[FirstScoreLine(f.lines)].tok # "num"
          /\ FirstNumericScoreLine(f.lines) > FirstScoreLine(f.lines)
    /\ \E f \in opened :
          /\ FirstScoreLine(f.lines) > 0
          /\ f.lines[FirstScoreLine(f.lines)].tok = "num"
          /\ Len(f.lines) > FirstScoreLine(f.lines)
          /\ scenario_scores[f.scen] =
                << <<DateStr(f.stamp), f.lines[FirstScoreLine(f.lines)].val>> >>

\* C24: a file whose scenario field is no target scenario, and a file
\* whose last field parses as no date-time, is not opened and leaves the
\* timelines and the date set as they are; the scan goes on
C24_SkippedFilesUntouched ==
    [][\A f \in toScan :
          (Scans(f) /\ (f.scen \notin Range(scenarios) \/ ~f.stamp.ok)) =>
              /\ opened' = opened
              /\ open_count' = open_count
              /\ scenario_scores' = scenario_scores
              /\ unique_dates_set' = unique_dates_set
              /\ match_count' = match_count
              /\ pc' = "scan"]_vars

\* the scan has taken a stats file of another scenario and a stats file of
\* a target scenario with a stamp that does not parse, and has opened none
C24_Witness ==
    /\ pc = "scan" /\ toScan = {} /\ file_count = 2 /\ open_count = 0
    /\ unique_dates_set = {}
    /\ \E f \in dir : /\ f.suffix /\ f.nparts >= 3 /\ f.stamp.ok
                       /\ f.scen \notin Range(scenarios)
    /\ \E f \in dir : /\ f.suffix /\ f.nparts >= 3 /\ ~f.stamp.ok
                       /\ f.scen \in Range(scenarios)

\* C25: calculate_rank_history returns in the end, whatever the CLI calls
\* answer, and when it has returned every batch was called once, has
\* ended and was collected
C25_ReturnsAfterAllBatches ==
    /\ <>(pc = "done")
    /\ [](pc = "done" =>
            /\ completed = Len(chunks)
            /\ \A i \in Batches :
                  status[i] = "collected" /\ batch_calls[i] = 1)

\* the call has returned a history although two batches failed
C25_Witness ==
    /\ pc = "done"
    /\ Len(chunks) >= 3
    /\ Cardinality(failed) >= 2
    /\ history # <<>>

\* the value the protocol reads as "no override"
Sentinel == -1

\* C26: a scenario without any observation has the slot 0 at every date,
\* as has a scenario not observed up to the date, and no slot of any
\* vector is the sentinel -1
C26_ZeroNeverSentinel ==
    \A k \in 1..Len(all_batch_items) :
        \A i \in 1..Len(scenarios) :
            LET slot == all_batch_items[k].scoreOverrides[i]
                name == scenarios[i]
            IN /\ cached_scores[name] = <<>> => slot = 0
               /\ ObsUpTo(cached_scores, name, all_batch_items[k].date) = {}
                     => slot = 0
               /\ slot # Sentinel

\* the scanned well-formed files of scenario n with date d and score v
FilesWith(n, d, v) ==
    {f \in dir \ toScan :
        /\ WellFormed(f, scenarios) /\ f.scen = n /\ f.stamp.day = d
        /\ \E i \in 1..Len(f.lines) :
              /\ f.lines[i].marker /\ f.lines[i].val = v
              /\ \A j \in 1..(i - 1) : ~f.lines[j].marker}

\* C27: a timeline holds one observation per scanned well-formed file of
\* its scenario, also for files of one calendar date; the list of dates
\* holds a date once; the slot of a date is at least every score of that
\* date and is their maximum when nothing earlier was observed
C27_DuplicateDatesRetained ==
    /\ pc = "scan" =>
          \A n \in DOMAIN scenario_scores :
              /\ Len(scenario_scores[n]) =
                    Cardinality({f \in dir \ toScan :
                                    WellFormed(f, scenarios) /\ f.scen = n})
              /\ \A d \in Days, v \in Scores \cup {-1} :
                    Cardinality({j \in 1..Len(scenario_scores[n]) :
                                    scenario_scores[n][j] = <<d, v>>})
                       = Cardinality(FilesWith(n, d, v))
    /\ \A i \in 1..Len(unique_dates), j \in 1..Len(unique_dates) :
          i # j => unique_dates[i] # unique_dates[j]
    /\ \A k \in 1..Len(all_batch_items), i \in 1..Len(scenarios) :
          LET obs == cached_scores[scenarios[i]]
              date == all_batch_items[k].date
              slot == all_batch_items[k].scoreOverrides[i]
              same == {j \in 1..Len(obs) : obs[j][1] = date}
          IN /\ \A j \in same : slot >= obs[j][2]
             /\ (same # {} /\ \A j \in 1..Len(obs) : obs[j][1] >= date)
                   => slot = SetMax({obs[j][2] : j \in same})

\* two files of one scenario and one calendar date with different scores:
\* both are in the timeline, the date is listed once, the slot is the
\* greater score
C27_Witness ==
    /\ Len(all_batch_items) = 1 /\ Len(unique_dates) = 1
    /\ \E i \in 1..Len(scenarios) :
          LET obs == cached_scores[scenarios[i]]
          IN /\ Len(obs) = 2
             /\ obs[1][1] = obs[2][1]
             /\ obs[1][2] # obs[2][2]
             /\ all_batch_items[1].scoreOverrides[i] =
                   SetMax({obs[1][2], obs[2][2]})

\* the dates of the observations of a timeline
ObservedDates(tl) ==
    UNION {{tl[n][j][1] : j \in 1..Len(tl[n])} : n \in DOMAIN tl}

\* C28: the date set is the set of the dates of the observations in the
\* timelines, during the scan and in what parse_all_stats returns
C28_DateSetIsObservedDates ==
    /\ unique_dates_set = ObservedDates(scenario_scores)
    /\ ParseReturned => Range(unique_dates) = ObservedDates(cached_scores)

====
